---- MODULE Spec2Model ----
(***************************************************************************)
(* State-machine model of HR_Diagram_Maker.py: main() loads a star table,  *)
(* classifies every row and composes the Hertzsprung-Russell diagram on    *)
(* three axes (primary, spectral class, luminosity).                       *)
(*                                                                         *)
(* Numbers.  Temperatures are Kelvin, drawn from multiples of 10, so that  *)
(* x*0.9 and x*1.1 are the exact integers (9*x)/10 and (11*x)/10.  A       *)
(* luminosity 10^i is represented by its exponent i.  Magnitudes are       *)
(* integers.                                                               *)
(*                                                                         *)
(* The axis operations (set_xlim, set_xticks, invert_xaxis, ...) are the   *)
(* calls the script makes on its axes; each is modelled by its effect on   *)
(* the view limits of the axis it is called on.                            *)
(***************************************************************************)
EXTENDS Integers, Sequences, FiniteSets, TLC

VARIABLES pc, file, df, stdout, raised, calls, ax, ax2, ax3, loop, locals

vars == <<pc, file, df, stdout, raised, calls, ax, ax2, ax3, loop, locals>>

---------------------------------------------------------------------------
(* Bounds of the explored inputs *)

MaxRows == 2

MaxMargin == 1

---------------------------------------------------------------------------
(* Small helpers *)

Min2(a, b) == IF a <= b THEN a ELSE b

Max2(a, b) == IF a >= b THEN a ELSE b

SeqMin(s) == CHOOSE x \in {s[i] : i \in DOMAIN s} : \A j \in DOMAIN s : x <= s[j]

SeqMax(s) == CHOOSE x \in {s[i] : i \in DOMAIN s} : \A j \in DOMAIN s : x >= s[j]

---------------------------------------------------------------------------
(* load_data *)

required_columns ==
    {"Temperature (K)", "Luminosity(L/Lo)", "Absolute magnitude(Mv)",
     "Star type", "Spectral Class"}

None == [isNone |-> TRUE]

DataFrame(cols, rows) == [isNone |-> FALSE, columns |-> cols, rows |-> rows]

\* pd.read_csv: raises for a missing/unreadable/unparsable file, otherwise
\* yields the table held by the file.
read_csv(f) ==
    CASE f.status = "missing"    -> [ok |-> FALSE, error |-> "FileNotFoundError"]
      [] f.status = "unreadable" -> [ok |-> FALSE, error |-> "PermissionError"]
      [] f.status = "malformed"  -> [ok |-> FALSE, error |-> "ParserError"]
      [] OTHER                   -> [ok |-> TRUE, df |-> DataFrame(f.columns, f.rows)]

\* load_data without its try/except: a failure leaves the function as an
\* exception.
load_data_uncaught(f) ==
    LET r == read_csv(f) IN
    IF ~r.ok
      THEN [df |-> None, printed |-> <<>>, raised |-> r.error]
      ELSE IF ~(\A col \in required_columns : col \in r.df.columns)
        THEN [df |-> None, printed |-> <<>>, raised |-> "ValueError"]
        ELSE [df |-> r.df, printed |-> <<>>, raised |-> "none"]

\* The try/except of load_data: the result is a table or None, together
\* with the message printed (if any) and the exception leaving the function
\* (none: every Exception is caught).
load_data(f) ==
    LET r == read_csv(f) IN
    IF ~r.ok
      THEN [df |-> None, printed |-> <<"Error loading data: " \o r.error>>,
            raised |-> "none"]
      ELSE IF ~(\A col \in required_columns : col \in r.df.columns)
        THEN [df |-> None,
              printed |-> <<"Error loading data: Dataset must contain required columns">>,
              raised |-> "none"]
        ELSE [df |-> r.df, printed |-> <<>>, raised |-> "none"]

---------------------------------------------------------------------------
(* map_star_types *)

\* star_type_map with the colour of type 0 repeated for type 1
star_type_map_dupcolor ==
    (0 :> [label |-> "Red Dwarf",     size |-> 30,  color |-> "red"])    @@
    (1 :> [label |-> "Brown Dwarf",   size |-> 20,  color |-> "red"])    @@
    (2 :> [label |-> "White Dwarf",   size |-> 25,  color |-> "green"])  @@
    (3 :> [label |-> "Main Sequence", size |-> 50,  color |-> "blue"])   @@
    (4 :> [label |-> "Giant",         size |-> 80,  color |-> "orange"]) @@
    (5 :> [label |-> "Supergiant",    size |-> 100, color |-> "purple"])

star_type_map ==
    (0 :> [label |-> "Red Dwarf",     size |-> 30,  color |-> "red"])    @@
    (1 :> [label |-> "Brown Dwarf",   size |-> 20,  color |-> "maroon"]) @@
    (2 :> [label |-> "White Dwarf",   size |-> 25,  color |-> "green"])  @@
    (3 :> [label |-> "Main Sequence", size |-> 50,  color |-> "blue"])   @@
    (4 :> [label |-> "Giant",         size |-> 80,  color |-> "orange"]) @@
    (5 :> [label |-> "Supergiant",    size |-> 100, color |-> "purple"])

\* star_type_map.get(x, default): an unknown key is given a default entry.
Lookup_default(x) ==
    IF x \in DOMAIN star_type_map
      THEN [ok |-> TRUE, value |-> star_type_map[x]]
      ELSE [ok |-> TRUE,
            value |-> [label |-> "Unknown", size |-> 10, color |-> "gray"]]

\* star_type_map[x]: a KeyError when x is not a key.
Lookup(x) ==
    IF x \in DOMAIN star_type_map
      THEN [ok |-> TRUE, value |-> star_type_map[x]]
      ELSE [ok |-> FALSE]

Column(d, name) == [i \in 1..Len(d.rows) |-> d.rows[i][name]]

\* Series.map(star_type_map) with the dict itself: an unknown code maps to
\* NaN instead of raising.
map_star_types_dictmap(d) ==
    [ok |-> TRUE,
     df |-> DataFrame(
         d.columns \cup {"Star type label", "Marker size", "Color"},
         [i \in 1..Len(d.rows) |->
             LET r == Lookup(d.rows[i]["Star type"])
                 t == IF r.ok THEN r.value
                      ELSE [label |-> "nan", size |-> "nan", color |-> "nan"]
             IN ("Star type label" :> t.label) @@
                ("Marker size" :> t.size) @@
                ("Color" :> t.color) @@ d.rows[i]])]

\* The three Series.map calls; the first lookup that fails raises before any
\* column is assigned.
map_star_types(d) ==
    IF \E i \in 1..Len(d.rows) : ~Lookup(d.rows[i]["Star type"]).ok
      THEN [ok |-> FALSE, error |-> "KeyError"]
      ELSE [ok |-> TRUE,
            df |-> DataFrame(
                d.columns \cup {"Star type label", "Marker size", "Color"},
                [i \in 1..Len(d.rows) |->
                    LET t == Lookup(d.rows[i]["Star type"]).value IN
                    ("Star type label" :> t.label) @@
                    ("Marker size" :> t.size) @@
                    ("Color" :> t.color) @@ d.rows[i]])]

---------------------------------------------------------------------------
(* Axis view limits.  A limit pair is <<first, second>>: <<left, right>>   *)
(* for an x axis, <<bottom, top>> for a y axis.                            *)

DefaultLim == <<0, 1>>

\* Axis.get_inverted
get_inverted(lim) == lim[2] < lim[1]

\* Axis.set_inverted: sorted((a, b), reverse=inverted)
set_inverted(lim, inverted) ==
    IF inverted
      THEN <<Max2(lim[1], lim[2]), Min2(lim[1], lim[2])>>
      ELSE <<Min2(lim[1], lim[2]), Max2(lim[1], lim[2])>>

\* ax.invert_xaxis() / ax.invert_yaxis()
invert_axis(lim) == set_inverted(lim, ~get_inverted(lim))

\* ax.set_xlim(a, b) / ax.set_ylim(a, b): the limits are taken in the order given.
set_lim(lim, a, b) == <<a, b>>

\* Axis.set_view_interval(vmin, vmax): never shrinks the limits and keeps
\* their orientation.
set_view_interval(lim, vmin, vmax) ==
    IF lim[1] < lim[2]
      THEN <<Min2(Min2(vmin, vmax), lim[1]), Max2(Max2(vmin, vmax), lim[2])>>
      ELSE <<Max2(Max2(vmin, vmax), lim[1]), Min2(Min2(vmin, vmax), lim[2])>>

\* ax.set_xticks(ticks) / ax.set_yticks(ticks): fixes the tick locations and
\* expands the view limits to include them.
set_ticks(lim, ticks) ==
    IF Len(ticks) > 0
      THEN set_view_interval(lim, SeqMin(ticks), SeqMax(ticks))
      ELSE lim

\* Autoscaling of the primary axes to the scattered points: the data range
\* widened by some margin.
autoscale_view(lim, points, m) ==
    IF Len(points) = 0 THEN lim
    ELSE <<SeqMin(points) - m, SeqMax(points) + m>>

---------------------------------------------------------------------------
(* create_spectral_class_axis *)

spectral_classes == <<"O", "B", "A", "F", "G", "K", "M">>

temp_bounds == <<40000, 30000, 10000, 7500, 6000, 3700, 2000>>

NoAxis == [exists |-> FALSE]

create_spectral_class_axis(temp_range) ==
    LET l0 == DefaultLim                              \* ax2 = ax.twiny()
        l1 == set_lim(l0, temp_range[1], temp_range[2])  \* ax2.set_xlim(temp_range)
        l2 == set_ticks(l1, temp_bounds)              \* ax2.set_xticks(temp_bounds)
        l3 == invert_axis(l2)                         \* ax2.invert_xaxis()
    IN [exists |-> TRUE, xscale |-> "log", xlim |-> l3,
        xticks |-> temp_bounds, xticklabels |-> spectral_classes,
        xlabel |-> "Spectral Class"]

---------------------------------------------------------------------------
(* create_luminosity_axis: a luminosity 10^i is held as its exponent i, a  *)
(* tick label $10^{i}$ as the record [base |-> 10, exp |-> i].             *)

l_min == 0 - 6

l_max == 6

\* range(-6, 7)
range_l == [k \in 1..(7 - (0 - 6)) |-> (0 - 6) + (k - 1)]

l_ticks == [k \in DOMAIN range_l |-> range_l[k]]

l_labels == [k \in DOMAIN range_l |-> [base |-> 10, exp |-> range_l[k]]]

\* the luminosity limits taken from the range passed in
create_luminosity_axis_data(mv_range) ==
    LET l0 == DefaultLim
        l1 == set_lim(l0, mv_range[1], mv_range[2])
        l2 == set_ticks(l1, l_ticks)
    IN [exists |-> TRUE, yscale |-> "log", ylim |-> l2,
        yticks |-> l_ticks, yticklabels |-> l_labels,
        ylabel |-> "Luminosity (L/Lo)"]

create_luminosity_axis(mv_range) ==
    LET l0 == DefaultLim                    \* ax3 = ax.twinx()
        l1 == set_lim(l0, l_min, l_max)     \* ax3.set_ylim(l_min, l_max)
        l2 == set_ticks(l1, l_ticks)        \* ax3.set_yticks(l_ticks)
    IN [exists |-> TRUE, yscale |-> "log", ylim |-> l2,
        yticks |-> l_ticks, yticklabels |-> l_labels,
        ylabel |-> "Luminosity (L/Lo)"]

---------------------------------------------------------------------------
(* plot_hr_diagram *)

\* Series.unique(): the distinct values in order of first appearance.
RECURSIVE unique(_)
unique(s) ==
    IF s = <<>> THEN <<>>
    ELSE LET u == unique(SubSeq(s, 1, Len(s) - 1))
             x == s[Len(s)]
         IN IF \E i \in DOMAIN u : u[i] = x THEN u ELSE Append(u, x)

\* zip(a, b): pairs by position, as long as the shorter argument.
zip(a, b) == [i \in 1..Min2(Len(a), Len(b)) |-> <<a[i], b[i]>>]

\* the loop run over every entry of star_type_map instead of the types
\* present in the table
layer_pairs_all(d) ==
    [k \in 1..6 |-> <<star_type_map[k - 1].label, star_type_map[k - 1].color>>]

\* The iterable of the layer loop.
layer_pairs(d) ==
    zip(unique(Column(d, "Star type label")), unique(Column(d, "Color")))

\* df[df['Star type label'] == s_type]
subset_of(d, s_type) ==
    SelectSeq(d.rows, LAMBDA r : r["Star type label"] = s_type)

\* ax.scatter(...) of one subset
scatter(subset, s_type, color) ==
    [x |-> [i \in DOMAIN subset |-> subset[i]["Temperature (K)"]],
     y |-> [i \in DOMAIN subset |-> subset[i]["Absolute magnitude(Mv)"]],
     c |-> color,
     s |-> subset[1]["Marker size"],
     label |-> s_type]

RECURSIVE Flatten(_)
Flatten(ss) == IF ss = <<>> THEN <<>> ELSE Head(ss) \o Flatten(Tail(ss))

\* the two padding factors exchanged
temp_range_swapped(d) ==
    <<(11 * SeqMin(Column(d, "Temperature (K)"))) \div 10,
      (9 * SeqMax(Column(d, "Temperature (K)"))) \div 10>>

\* 0.9 * min and 1.1 * max of the temperature column
temp_range(d) ==
    <<(9 * SeqMin(Column(d, "Temperature (K)"))) \div 10,
      (11 * SeqMax(Column(d, "Temperature (K)"))) \div 10>>

\* min - 1 and max + 1 of the magnitude column
mv_range(d) ==
    <<SeqMin(Column(d, "Absolute magnitude(Mv)")) - 1,
      SeqMax(Column(d, "Absolute magnitude(Mv)")) + 1>>

major_ticks == <<40000, 30000, 20000, 10000, 7500, 6000, 5000, 3000>>

NoLoop == [pairs |-> <<>>, i |-> 1, skipped |-> 0]

\* temp_min, temp_max, mv_min, mv_max of plot_hr_diagram; <<>> while unbound
NoLocals == [temp |-> <<>>, mv |-> <<>>]

\* fig, ax = plt.subplots(...), and the loop iterable is evaluated
PlotSubplots ==
    /\ pc = "subplots"
    /\ ax' = [exists |-> TRUE, xscale |-> "linear",
              xlim |-> DefaultLim, ylim |-> DefaultLim,
              xticks |-> <<>>, layers |-> <<>>, legend |-> <<>>]
    /\ loop' = [pairs |-> layer_pairs(df), i |-> 1, skipped |-> 0]
    /\ calls' = Append(calls, "plot_hr_diagram")
    /\ pc' = "loop"
    /\ UNCHANGED <<file, df, stdout, raised, ax2, ax3, locals>>

\* one iteration of the layer loop
PlotLayer ==
    /\ pc = "loop"
    /\ loop.i <= Len(loop.pairs)
    /\ LET s_type == loop.pairs[loop.i][1]
           color  == loop.pairs[loop.i][2]
           subset == subset_of(df, s_type)
       IN IF subset # <<>>
            THEN /\ ax' = [ax EXCEPT !.layers = Append(@, scatter(subset, s_type, color))]
                 /\ loop' = [loop EXCEPT !.i = @ + 1]
            ELSE /\ ax' = ax
                 /\ loop' = [loop EXCEPT !.i = @ + 1, !.skipped = @ + 1]
    /\ UNCHANGED <<pc, file, df, stdout, raised, calls, ax2, ax3, locals>>

\* set_xscale('log'), invert_xaxis(), invert_yaxis(): the limits inverted
\* are the autoscaled ones
PlotScale ==
    /\ pc = "loop"
    /\ loop.i > Len(loop.pairs)
    /\ \E m \in 0..MaxMargin :
         LET xs == Flatten([k \in DOMAIN ax.layers |-> ax.layers[k].x])
             ys == Flatten([k \in DOMAIN ax.layers |-> ax.layers[k].y])
         IN ax' = [ax EXCEPT !.xscale = "log",
                             !.xlim = invert_axis(autoscale_view(@, xs, m)),
                             !.ylim = invert_axis(autoscale_view(@, ys, m))]
    /\ pc' = "legend"
    /\ UNCHANGED <<file, df, stdout, raised, calls, ax2, ax3, loop, locals>>

\* labels, title, ax.legend(...), ax.grid(...): one legend entry per
\* labelled layer
PlotLegend ==
    /\ pc = "legend"
    /\ ax' = [ax EXCEPT !.legend = [k \in DOMAIN ax.layers |-> ax.layers[k].label]]
    /\ pc' = "xlim"
    /\ UNCHANGED <<file, df, stdout, raised, calls, ax2, ax3, loop, locals>>

\* temp_min, temp_max and ax.set_xlim(temp_max, temp_min); the extrema of an
\* empty column are NaN, which set_xlim rejects
PlotXLim ==
    /\ pc = "xlim"
    /\ IF df.rows = <<>>
         THEN /\ raised' = "ValueError"
              /\ pc' = "aborted"
              /\ ax' = ax
              /\ locals' = locals
         ELSE /\ locals' = [locals EXCEPT !.temp = temp_range(df)]
              /\ ax' = [ax EXCEPT !.xlim = set_lim(@, locals'.temp[2], locals'.temp[1])]
              /\ pc' = "ylim"
              /\ raised' = raised
    /\ UNCHANGED <<file, df, stdout, calls, ax2, ax3, loop>>

\* ax.set_ylim(mv_min, mv_max), relying on the earlier invert_yaxis()
PlotYLim_unswapped ==
    /\ pc = "ylim"
    /\ locals' = [locals EXCEPT !.mv = mv_range(df)]
    /\ ax' = [ax EXCEPT !.ylim = set_lim(@, locals'.mv[1], locals'.mv[2])]
    /\ pc' = "xticks"
    /\ UNCHANGED <<file, df, stdout, raised, calls, ax2, ax3, loop>>

\* mv_min, mv_max and ax.set_ylim(mv_max, mv_min)
PlotYLim ==
    /\ pc = "ylim"
    /\ locals' = [locals EXCEPT !.mv = mv_range(df)]
    /\ ax' = [ax EXCEPT !.ylim = set_lim(@, locals'.mv[2], locals'.mv[1])]
    /\ pc' = "xticks"
    /\ UNCHANGED <<file, df, stdout, raised, calls, ax2, ax3, loop>>

\* ax.set_xticks(major_ticks) and the tick formatting
PlotXTicks ==
    /\ pc = "xticks"
    /\ ax' = [ax EXCEPT !.xticks = major_ticks,
                        !.xlim = set_ticks(@, major_ticks)]
    /\ pc' = "spectral"
    /\ UNCHANGED <<file, df, stdout, raised, calls, ax2, ax3, loop, locals>>

\* create_spectral_class_axis(ax, (temp_min, temp_max))
PlotSpectral ==
    /\ pc = "spectral"
    /\ ax2' = create_spectral_class_axis(locals.temp)
    /\ calls' = Append(calls, "create_spectral_class_axis")
    /\ pc' = "luminosity"
    /\ UNCHANGED <<file, df, stdout, raised, ax, ax3, loop, locals>>

\* create_luminosity_axis(ax, (mv_min, mv_max))
PlotLuminosity ==
    /\ pc = "luminosity"
    /\ ax3' = create_luminosity_axis(locals.mv)
    /\ calls' = Append(calls, "create_luminosity_axis")
    /\ pc' = "show"
    /\ UNCHANGED <<file, df, stdout, raised, ax, ax2, loop, locals>>

\* plt.tight_layout(...), plt.show(), and the return to main
PlotShow ==
    /\ pc = "show"
    /\ pc' = "done"
    /\ UNCHANGED <<file, df, stdout, raised, calls, ax, ax2, ax3, loop, locals>>

---------------------------------------------------------------------------
(* main *)

\* df = load_data(file_path)
MainLoad ==
    /\ pc = "load"
    /\ df' = load_data(file).df
    /\ stdout' = stdout \o load_data(file).printed
    /\ calls' = Append(calls, "load_data")
    /\ raised' = load_data(file).raised
    /\ pc' = IF load_data(file).raised = "none" THEN "check" ELSE "aborted"
    /\ UNCHANGED <<file, ax, ax2, ax3, loop, locals>>

\* if df is not None: ... else main returns
MainCheck ==
    /\ pc = "check"
    /\ pc' = IF ~df.isNone THEN "map" ELSE "done"
    /\ UNCHANGED <<file, df, stdout, raised, calls, ax, ax2, ax3, loop, locals>>

\* df = map_star_types(df); a KeyError is not caught by main
MainMap ==
    /\ pc = "map"
    /\ calls' = Append(calls, "map_star_types")
    /\ LET r == map_star_types(df) IN
       IF r.ok
         THEN /\ df' = r.df
              /\ pc' = "subplots"
              /\ raised' = raised
         ELSE /\ df' = df
              /\ pc' = "aborted"
              /\ raised' = r.error
    /\ UNCHANGED <<file, stdout, ax, ax2, ax3, loop, locals>>

---------------------------------------------------------------------------
(* Input files *)

Codes == 0..6

\* (temperature, magnitude, log10 luminosity, spectral class) of a measured
\* star; temperatures are positive multiples of 10 K
Measurements ==
    { <<2000, 15, 0 - 8, "M">>, <<3000, 15, 0 - 3, "M">>,
      <<5000, 5, 0, "K">>,      <<40000, 0 - 10, 8, "O">> }

Row(m, code) ==
    ("Temperature (K)" :> m[1]) @@ ("Absolute magnitude(Mv)" :> m[2]) @@
    ("Luminosity(L/Lo)" :> m[3]) @@ ("Spectral Class" :> m[4]) @@
    ("Star type" :> code)

Rows == { Row(m, c) : m \in Measurements, c \in Codes }

\* every table of at most MaxRows rows
SmallTables == UNION { [1..n -> Rows] : n \in 0..MaxRows }

\* one star of each of the six types, in every row order
CatalogueMeasurement ==
    (0 :> <<3000, 15, 0 - 3, "M">>) @@ (1 :> <<3000, 15, 0 - 3, "M">>) @@
    (2 :> <<5000, 5, 0, "K">>)      @@ (3 :> <<5000, 5, 0, "K">>) @@
    (4 :> <<5000, 5, 0, "K">>)      @@ (5 :> <<40000, 0 - 10, 8, "O">>)

CatalogueTables ==
    { [i \in 1..6 |-> Row(CatalogueMeasurement[p[i]], p[i])] :
        p \in { q \in [1..6 -> 0..5] : \A i, j \in 1..6 : q[i] = q[j] => i = j } }

Project(rows, cols) == [i \in DOMAIN rows |-> [c \in cols |-> rows[i][c]]]

Files ==
    { [status |-> s] : s \in {"missing", "unreadable", "malformed"} }
    \cup { [status |-> "ok", columns |-> required_columns, rows |-> t] :
             t \in SmallTables \cup CatalogueTables }
    \cup { [status |-> "ok", columns |-> cols, rows |-> Project(t, cols)] :
             cols \in (SUBSET required_columns) \ {required_columns},
             t \in { u \in SmallTables : Len(u) <= 1 } }

---------------------------------------------------------------------------
(* Specification *)

Init ==
    /\ file \in Files
    /\ pc = "load"
    /\ df = None
    /\ stdout = <<>>
    /\ raised = "none"
    /\ calls = <<>>
    /\ ax = NoAxis
    /\ ax2 = NoAxis
    /\ ax3 = NoAxis
    /\ loop = NoLoop
    /\ locals = NoLocals

Next ==
    \/ MainLoad
    \/ MainCheck
    \/ MainMap
    \/ PlotSubplots
    \/ PlotLayer
    \/ PlotScale
    \/ PlotLegend
    \/ PlotXLim
    \/ PlotYLim
    \/ PlotXTicks
    \/ PlotSpectral
    \/ PlotLuminosity
    \/ PlotShow

Spec == Init /\ [][Next]_vars

TypeOK ==
    /\ pc \in {"load", "check", "map", "subplots", "loop", "legend", "xlim",
               "ylim", "xticks", "spectral", "luminosity", "show", "done", "aborted"}
    /\ raised \in {"none", "KeyError", "ValueError"}
    /\ df.isNone \in BOOLEAN

---------------------------------------------------------------------------
(* Properties *)

\* The descriptor table as the specification states it.
Descriptor ==
    (0 :> <<"Red Dwarf", 30, "red">>)     @@ (1 :> <<"Brown Dwarf", 20, "maroon">>) @@
    (2 :> <<"White Dwarf", 25, "green">>) @@ (3 :> <<"Main Sequence", 50, "blue">>) @@
    (4 :> <<"Giant", 80, "orange">>)      @@ (5 :> <<"Supergiant", 100, "purple">>)

Called(f) == \E i \in DOMAIN calls : calls[i] = f

\* the file is readable and has the five required columns
Loadable == file.status = "ok" /\ required_columns \subseteq file.columns

FileCodes == [i \in DOMAIN file.rows |-> file.rows[i]["Star type"]]

FileTemps == [i \in DOMAIN file.rows |-> file.rows[i]["Temperature (K)"]]

FileMags == [i \in DOMAIN file.rows |-> file.rows[i]["Absolute magnitude(Mv)"]]

FileLums == [i \in DOMAIN file.rows |-> file.rows[i]["Luminosity(L/Lo)"]]

AllCodesValid == \A i \in DOMAIN file.rows : FileCodes[i] \in 0..5

Classified == Loadable /\ AllCodesValid /\ Called("map_star_types")

RowTriple(r) == <<r["Star type label"], r["Marker size"], r["Color"]>>

\* C1: once map_star_types has run, a table whose codes are all in 0..5 has
\* every row carrying exactly the (label, size, color) of its code, and a
\* table with a code outside 0..5 has ended in a KeyError with no derived
\* column attached to any row.
C1_Classification ==
    Called("map_star_types") =>
      IF AllCodesValid
        THEN /\ raised # "KeyError"
             /\ ~df.isNone
             /\ Len(df.rows) = Len(file.rows)
             /\ \A i \in DOMAIN df.rows :
                  /\ df.rows[i]["Star type"] = FileCodes[i]
                  /\ RowTriple(df.rows[i]) = Descriptor[FileCodes[i]]
        ELSE /\ raised = "KeyError"
             /\ pc = "aborted"
             /\ df.rows = file.rows
             /\ "Star type label" \notin df.columns

C1_Witness ==
    /\ Classified
    /\ {FileCodes[i] : i \in DOMAIN file.rows} = 0..5
    /\ \A i \in DOMAIN df.rows : RowTriple(df.rows[i]) = Descriptor[FileCodes[i]]

\* C2: after load_data has run on a missing, unreadable or malformed file or
\* on a table lacking a required column, the result is None, one message
\* was printed, no exception left the function, and neither map_star_types
\* nor plot_hr_diagram is ever called; main only ever continues past a None.
C2_LoadFailure ==
    /\ (Called("load_data") /\ ~Loadable) =>
          /\ df.isNone
          /\ raised = "none"
          /\ Len(stdout) = 1
          /\ pc \in {"check", "done"}
    /\ (Called("load_data") /\ df.isNone) =>
          /\ calls = <<"load_data">>
          /\ ~ax.exists /\ ~ax2.exists /\ ~ax3.exists

C2_Witness ==
    /\ pc = "done"
    /\ file.status = "ok"
    /\ Cardinality(required_columns \ file.columns) = 1
    /\ Len(file.rows) = 1
    /\ df.isNone
    /\ calls = <<"load_data">>

AfterXTicks == pc \in {"spectral", "luminosity", "show", "done"} /\ ax.exists

AfterYLim == pc \in {"xticks", "spectral", "luminosity", "show", "done"} /\ ax.exists

\* C3: once the primary axis has its limits and its fixed major ticks, its
\* temperature limits are exactly (1.1*Tmax, 0.9*Tmin), in that order.
C3_TemperatureLimits ==
    AfterXTicks =>
      /\ ax.xticks = <<40000, 30000, 20000, 10000, 7500, 6000, 5000, 3000>>
      /\ ax.xlim = <<(11 * SeqMax(FileTemps)) \div 10, (9 * SeqMin(FileTemps)) \div 10>>

\* C4: from set_ylim on, in particular when plot_hr_diagram finishes, the
\* primary magnitude limits are exactly (Mmax+1, Mmin-1), bottom above top.
C4_MagnitudeLimits ==
    AfterYLim =>
      /\ ax.ylim = <<SeqMax(FileMags) + 1, SeqMin(FileMags) - 1>>
      /\ ax.ylim[1] > ax.ylim[2]

C4_Witness ==
    /\ pc = "done" /\ ax.exists
    /\ SeqMin(FileMags) = 0 - 10 /\ SeqMax(FileMags) = 15
    /\ ax.ylim = <<16, 0 - 11>>

\* C5: whenever the luminosity axis exists its limits are (1e-6, 1e6) and
\* its major ticks are the 13 powers 10^-6 .. 10^6, each labelled with its
\* exponent, whatever the table holds.
C5_LuminosityAxis ==
    ax3.exists =>
      /\ ax3.ylim = <<0 - 6, 6>>
      /\ Len(ax3.yticks) = 13
      /\ Len(ax3.yticklabels) = 13
      /\ \A k \in 1..13 :
           /\ ax3.yticks[k] = k - 7
           /\ ax3.yticklabels[k] = [base |-> 10, exp |-> k - 7]

C5_Witness ==
    /\ pc = "done" /\ ax3.exists
    /\ \E i \in DOMAIN file.rows : FileLums[i] > 6
    /\ \E i \in DOMAIN file.rows : FileLums[i] < 0 - 6
    /\ locals.mv # <<0 - 6, 6>>
    /\ ax3.ylim = <<0 - 6, 6>>

AfterLegend ==
    pc \in {"xlim", "ylim", "xticks", "spectral", "luminosity", "show", "done"} /\ ax.exists

RowsOfCode(c) == SelectSeq(file.rows, LAMBDA r : r["Star type"] = c)

\* C6: after the layer loop and the legend, there is exactly one layer and
\* one legend entry per star type present in the table, and each layer holds
\* the rows of one type with the label, color and size of that same type.
C6_Layers ==
    AfterLegend =>
      LET present == {FileCodes[i] : i \in DOMAIN file.rows} IN
      /\ Len(ax.layers) = Cardinality(present)
      /\ Len(ax.legend) = Cardinality(present)
      /\ \A k \in DOMAIN ax.layers : ax.legend[k] = ax.layers[k].label
      /\ \A j, k \in DOMAIN ax.layers : ax.layers[j].label = ax.layers[k].label => j = k
      /\ \A c \in present :
           \E k \in DOMAIN ax.layers :
             /\ <<ax.layers[k].label, ax.layers[k].s, ax.layers[k].c>> = Descriptor[c]
             /\ ax.layers[k].x = [i \in DOMAIN RowsOfCode(c) |-> RowsOfCode(c)[i]["Temperature (K)"]]
             /\ ax.layers[k].y = [i \in DOMAIN RowsOfCode(c) |-> RowsOfCode(c)[i]["Absolute magnitude(Mv)"]]

C6_Witness ==
    /\ pc = "done" /\ ax.exists
    /\ Len(file.rows) = 6
    /\ Len(ax.legend) = 6
    /\ {ax.legend[k] : k \in 1..6} =
         {"Red Dwarf", "Brown Dwarf", "White Dwarf", "Main Sequence", "Giant", "Supergiant"}
    /\ FileCodes[1] = 5 /\ FileCodes[2] = 0

\* C7: once create_spectral_class_axis has finished, the spectral-class axis
\* has the same limits, in the same order, as the primary temperature axis.
C7_SpectralAligned ==
    ax2.exists =>
      /\ ax2.xticks = <<40000, 30000, 10000, 7500, 6000, 3700, 2000>>
      /\ ax2.xticklabels = <<"O", "B", "A", "F", "G", "K", "M">>
      /\ ax2.xlim = ax.xlim

\* C8: a loaded table holding a code outside 0..5 never reaches
\* plot_hr_diagram: no axis or layer exists in any state of the run, and
\* once map_star_types has run main has ended with the KeyError.
C8_ClassificationFatal ==
    (Loadable /\ ~AllCodesValid) =>
      /\ ~Called("plot_hr_diagram")
      /\ ~ax.exists /\ ~ax2.exists /\ ~ax3.exists
      /\ loop = NoLoop
      /\ Called("map_star_types") => (raised = "KeyError" /\ pc = "aborted")

C8_Witness ==
    /\ Loadable
    /\ Len(file.rows) = 2
    /\ FileCodes[1] \in 0..5 /\ FileCodes[2] \notin 0..5
    /\ pc = "aborted" /\ raised = "KeyError"
    /\ calls = <<"load_data", "map_star_types">>

C10_NoEmptySubset ==
    /\ loop.skipped = 0
    /\ (ax.exists /\ pc # "loop") =>
         \A i \in DOMAIN df.rows :
           \E k \in DOMAIN ax.layers : ax.layers[k].label = df.rows[i]["Star type label"]

C10_Witness ==
    /\ pc = "done" /\ ax.exists
    /\ Len(loop.pairs) >= 2
    /\ loop.i = Len(loop.pairs) + 1
    /\ Len(ax.layers) = Len(loop.pairs)
    /\ loop.skipped = 0

====
